---------------------------- MODULE Spec2Model ----------------------------
(***************************************************************************)
(* A model of two parts of the cluster-version-operator:                   *)
(*                                                                         *)
(*  - the update status controller (package updatestatus): producers send  *)
(*    insights over a buffered channel, one receiver applies them to the   *)
(*    internal desired ConfigMap (statusApi.cm), and sync() merges that    *)
(*    state into the ConfigMap of the cluster;                             *)
(*  - waitForOperatorStatusToBeDone (package internal): the poll loop that *)
(*    decides whether a cluster operator finished updating.                *)
(*                                                                         *)
(* The two parts share no state.  Spec is the specification of the         *)
(* controller, PipeSpec the controller without the other actors of the     *)
(* cluster, LiveSpec one producer and one worker under the fairness of the *)
(* Go scheduler and the work queue, and WaitSpec the specification of the  *)
(* waiter; each leaves the other part's variables at their initial values. *)
(***************************************************************************)
EXTENDS Integers, Sequences, FiniteSets, TLC

VARIABLES
    cluster,        \* the ConfigMap in the cluster: [exists, Data]
    statusApi,      \* c.statusApi: [cmNil, dataNil, Data, processed]
    mutex,          \* c.statusApi.Mutex: "free" or the sync worker holding it
    fromInformers,  \* the buffered channel of informerMsg
    sendsReturned,  \* history: the number of sends that returned
    lastSent,       \* history: per uid, the content of the last send that returned
    prodPc,         \* per producer: "idle" or "blocked" (in fromInformers <- msg)
    prodMsg,        \* per producer: the message of a blocked send
    recvPc,         \* the receiver: "notstarted", "select", "apply", "enqueue",
                    \* "stopped"
    insight,        \* the message the receiver took from the channel
    queue,          \* TRUE iff statusApiConfigMap is in the work queue
    syncPc,         \* per sync worker: "idle", "lock", "update"
    clusterCm,      \* per sync worker: the ConfigMap it fetched
    seenCm,         \* per sync worker: statusApi as it was when it took the lock
    dirty,          \* per sync worker: the cluster object changed since its Get
    syncRet,        \* what sync returned in the step that led here: [key, at, err]
    panicked,       \* the process died of a Go runtime panic
    expected,       \* waiter: the expected ClusterOperator: [Name, Versions]
    mode,           \* waiter: the resourcebuilder.Mode of the call
    waitPc,         \* waiter: "call", "first", "stop?", "loop", "done"
    ctxDone,        \* waiter: the context of the call is cancelled or timed out
    got,            \* waiter: what client.Get returned in the last poll
    lastErr,        \* waiter: the variable lastErr of the call
    polls,          \* waiter history: the number of polls so far
    recorded,       \* waiter history: the diagnostic of the last poll
    waitRet,        \* waiter: what the call returned
    events          \* waiter: the events the call emitted, in order

uscVars == << cluster, statusApi, mutex, fromInformers, sendsReturned, lastSent,
              prodPc, prodMsg, recvPc, insight, queue, syncPc, clusterCm, seenCm,
              dirty, syncRet, panicked >>

waitVars == << expected, mode, waitPc, ctxDone, got, lastErr, polls, recorded,
               waitRet, events >>

vars == << uscVars, waitVars >>

chanVars == << fromInformers, sendsReturned, lastSent, prodPc, prodMsg >>

recvVars == << recvPc, insight >>

workVars == << syncPc, clusterCm, seenCm, dirty >>

-----------------------------------------------------------------------------
(* Bounds of the model. *)

\* The number of sends the producers make in one behaviour.
MaxSends == 3

\* The number of polls of one call of waitForOperatorStatusToBeDone.
MaxPolls == 2

\* The capacity of fromInformers.  The source makes the channel with 100
\* slots; the model scales it down so that a full channel is reached.
ChanCap == 1

-----------------------------------------------------------------------------
(* Keys and values.  A key is a sequence of characters so that the prefix  *)
(* test of isStatusInsightKey is computed, not assumed.                    *)

StatusInsightPrefix == << "u", "s", "c", "-" >>

HasPrefix(s, prefix) ==
    /\ Len(s) >= Len(prefix)
    /\ SubSeq(s, 1, Len(prefix)) = prefix

isStatusInsightKey(k) == HasPrefix(k, StatusInsightPrefix)

KeyUscA == StatusInsightPrefix \o << "a" >>
KeyFoo  == << "f", "o", "o" >>

\* The uids the producers use: the informers prefix every uid with "usc-".
InsightUids == { KeyUscA }

\* Keys other actors keep in the ConfigMap.
ForeignKeys == { KeyFoo }

Keys == InsightUids \cup ForeignKeys

Contents == { "A", "B" }

ForeignValues == { "bar", "baz" }

ValuesOf(k) == IF k \in ForeignKeys THEN ForeignValues ELSE Contents

EmptyMap == [ k \in {} |-> "" ]

\* The maps a ConfigMap of the cluster can hold.
DataMaps ==
    UNION { { f \in [ D -> Contents \cup ForeignValues ] :
                \A k \in D : f[k] \in ValuesOf(k) } : D \in SUBSET Keys }

\* The data other actors create the ConfigMap with.
CreateDatas ==
    { d \in DataMaps : \A k \in DOMAIN d : d[k] \in { "A", "bar" } }

Messages == [ uid : InsightUids, insight : Contents ]

NoMsg == [ uid |-> << >>, insight |-> "" ]

Producers == { "p1", "p2" }

Workers == { "w1", "w2" }

statusApiConfigMap == "status-api-cm-prototype"

\* The keys sync is called with: periodic resync, the status API ConfigMap,
\* and another ConfigMap of the namespace.
QueueKeys == { "", statusApiConfigMap, "other-cm" }

NoCm == [ dataNil |-> TRUE, Data |-> EmptyMap ]

\* The last step was not a return of sync.
NoRet == [ key |-> "", at |-> 0, err |-> "none" ]

NoState == [ cmNil |-> TRUE, dataNil |-> TRUE, Data |-> EmptyMap, processed |-> 0 ]

-----------------------------------------------------------------------------
(* Pure helpers of the controller. *)

ManagedKeys(d) == { k \in DOMAIN d : isStatusInsightKey(k) }

ForeignKeysOf(d) == { k \in DOMAIN d : ~isStatusInsightKey(k) }

Restrict(d, S) == [ k \in S |-> d[k] ]

\* configMaps.Get of an existing object: a ConfigMap without data entries
\* decodes with a nil Data map.
GetResult(c) == [ dataNil |-> (DOMAIN c.Data = {}), Data |-> c.Data ]

\* A merge that keeps the fetched value of every key the fetched ConfigMap
\* has.
MergedCmPreferFetched(fetched, desired) ==
    LET D == DOMAIN fetched.Data \cup DOMAIN desired.Data
    IN  [ dataNil |-> fetched.dataNil /\ DOMAIN desired.Data = {},
          Data    |-> [ k \in D |-> IF k \in DOMAIN fetched.Data
                                    THEN fetched.Data[k] ELSE desired.Data[k] ] ]

\* Lines 181-193: copy the fetched ConfigMap, delete the insight keys, then
\* overlay every entry of the internal state.
MergedCm(fetched, desired) ==
    LET kept == Restrict(fetched.Data, ForeignKeysOf(fetched.Data))
        D    == DOMAIN kept \cup DOMAIN desired.Data
    IN  [ dataNil |-> fetched.dataNil /\ DOMAIN desired.Data = {},
          Data    |-> [ k \in D |-> IF k \in DOMAIN desired.Data
                                    THEN desired.Data[k] ELSE kept[k] ] ]

-----------------------------------------------------------------------------
(* The update status controller. *)

UscInit ==
    /\ cluster \in { [ exists |-> FALSE, Data |-> EmptyMap ] }
                   \cup { [ exists |-> TRUE, Data |-> d ] : d \in CreateDatas }
    /\ statusApi = NoState
    /\ mutex = "free"
    /\ fromInformers = << >>
    /\ sendsReturned = 0
    /\ lastSent = EmptyMap
    /\ prodPc = [ p \in Producers |-> "idle" ]
    /\ prodMsg = [ p \in Producers |-> NoMsg ]
    /\ recvPc = "notstarted"
    /\ insight = NoMsg
    /\ queue = FALSE
    /\ syncPc = [ w \in Workers |-> "idle" ]
    /\ clusterCm = [ w \in Workers |-> NoCm ]
    /\ seenCm = [ w \in Workers |-> NoState ]
    /\ dirty = [ w \in Workers |-> FALSE ]
    /\ syncRet = NoRet
    /\ panicked = FALSE

\* c.statusApi.Lock() (lines 129, 169) returns only when nobody holds the
\* mutex.
CanLockAlways(m) == TRUE

CanLock(m) == m = "free"

NumBlocked == Cardinality({ p \in Producers : prodPc[p] = "blocked" })

\* The history of a send that returned.
Returned(msg) ==
    /\ sendsReturned' = sendsReturned + 1
    /\ lastSent' = [ u \in DOMAIN lastSent \cup { msg.uid } |->
                       IF u = msg.uid THEN msg.insight ELSE lastSent[u] ]

\* The channel after fromInformers <- msg.
Enqueued(ch, msg) == Append(ch, msg)

\* Whether a send into the channel has to wait (make(chan informerMsg, 100)).
ChanFullNever(ch) == FALSE

ChanFull(ch) == Len(ch) >= ChanCap

\* sendInsight (lines 121-123) on a channel with a free slot: the send
\* returns at once, whether or not the receiver runs.
SendInsight(p, msg) ==
    /\ ~panicked
    /\ prodPc[p] = "idle"
    /\ sendsReturned + NumBlocked < MaxSends
    /\ ~ChanFull(fromInformers)
    /\ fromInformers' = Enqueued(fromInformers, msg)
    /\ Returned(msg)
    /\ syncRet' = NoRet
    /\ UNCHANGED << cluster, statusApi, mutex, prodPc, prodMsg, recvVars, queue,
                    workVars, panicked >>
    /\ UNCHANGED waitVars

\* sendInsight on a full channel: the caller blocks in the channel send.
SendInsightBlocks(p, msg) ==
    /\ ~panicked
    /\ prodPc[p] = "idle"
    /\ sendsReturned + NumBlocked < MaxSends
    /\ ChanFull(fromInformers)
    /\ prodPc' = [ prodPc EXCEPT ![p] = "blocked" ]
    /\ prodMsg' = [ prodMsg EXCEPT ![p] = msg ]
    /\ syncRet' = NoRet
    /\ UNCHANGED << cluster, statusApi, mutex, fromInformers, sendsReturned,
                    lastSent, recvVars, queue, workVars, panicked >>
    /\ UNCHANGED waitVars

\* A blocked send completes once the channel has a free slot.
SendInsightResumes(p) ==
    /\ ~panicked
    /\ prodPc[p] = "blocked"
    /\ ~ChanFull(fromInformers)
    /\ fromInformers' = Enqueued(fromInformers, prodMsg[p])
    /\ Returned(prodMsg[p])
    /\ prodPc' = [ prodPc EXCEPT ![p] = "idle" ]
    /\ prodMsg' = [ prodMsg EXCEPT ![p] = NoMsg ]
    /\ syncRet' = NoRet
    /\ UNCHANGED << cluster, statusApi, mutex, recvVars, queue, workVars, panicked >>
    /\ UNCHANGED waitVars

\* The post start hook starts the receiver loop (lines 105-107).
StartInsightReceiver ==
    /\ ~panicked
    /\ recvPc = "notstarted"
    /\ recvPc' = "select"
    /\ syncRet' = NoRet
    /\ UNCHANGED << cluster, statusApi, mutex, chanVars, insight, queue,
                    workVars, panicked >>
    /\ UNCHANGED waitVars

\* The receiver's place after the step it is at, in one round of the case of
\* lines 110-113: take from the channel, apply, add to the queue.
AfterStepEnqueueFirst(pc) ==
    CASE pc = "select"  -> "enqueue"
      [] pc = "enqueue" -> "apply"
      [] pc = "apply"   -> "select"

AfterStep(pc) ==
    CASE pc = "select"  -> "apply"
      [] pc = "apply"   -> "enqueue"
      [] pc = "enqueue" -> "select"

\* The local variable insight after a step: it is gone when the round ends.
InsightAfter(pc, msg) == IF AfterStep(pc) = "select" THEN NoMsg ELSE msg

\* case insight := <-fromInformers (line 110).
ReceiveInsight ==
    /\ ~panicked
    /\ recvPc = "select"
    /\ fromInformers # << >>
    /\ insight' = Head(fromInformers)
    /\ fromInformers' = Tail(fromInformers)
    /\ recvPc' = AfterStep("select")
    /\ syncRet' = NoRet
    /\ UNCHANGED << cluster, statusApi, mutex, sendsReturned, lastSent, prodPc,
                    prodMsg, queue, workVars, panicked >>
    /\ UNCHANGED waitVars

\* case <-ctx.Done() (lines 114-116).
StopInsightReceiver ==
    /\ ~panicked
    /\ recvPc = "select"
    /\ recvPc' = "stopped"
    /\ syncRet' = NoRet
    /\ UNCHANGED << cluster, statusApi, mutex, chanVars, insight, queue,
                    workVars, panicked >>
    /\ UNCHANGED waitVars

\* The state updateInsightInStatusApi leaves (lines 132-144), when the
\* assignment of line 143 does not panic.
AppliedKeepFirst(api, msg) ==
    [ cmNil     |-> FALSE,
      dataNil   |-> FALSE,
      Data      |-> [ k \in DOMAIN api.Data \cup { msg.uid } |->
                        IF k \in DOMAIN api.Data THEN api.Data[k] ELSE msg.insight ],
      processed |-> api.processed + 1 ]

Applied(api, msg) ==
    [ cmNil     |-> FALSE,
      dataNil   |-> FALSE,
      Data      |-> [ k \in DOMAIN api.Data \cup { msg.uid } |->
                        IF k = msg.uid THEN msg.insight ELSE api.Data[k] ],
      processed |-> api.processed + 1 ]

\* Line 143 assigns into c.statusApi.cm.Data: an assignment to an entry of a
\* nil map is a runtime panic.
AssignPanics(api) == ~api.cmNil /\ api.dataNil

\* updateInsightInStatusApi (lines 128-155), called at line 112.
UpdateInsightInStatusApi ==
    /\ ~panicked
    /\ recvPc = "apply"
    /\ CanLock(mutex)
    /\ ~AssignPanics(statusApi)
    /\ statusApi' = Applied(statusApi, insight)
    /\ insight' = InsightAfter("apply", insight)
    /\ recvPc' = AfterStep("apply")
    /\ syncRet' = NoRet
    /\ UNCHANGED << cluster, mutex, chanVars, queue, workVars, panicked >>
    /\ UNCHANGED waitVars

\* syncCtx.Queue().Add(statusApiConfigMap) (line 113).
QueueAdd ==
    /\ ~panicked
    /\ recvPc = "enqueue"
    /\ queue' = TRUE
    /\ insight' = InsightAfter("enqueue", insight)
    /\ recvPc' = AfterStep("enqueue")
    /\ syncRet' = NoRet
    /\ UNCHANGED << cluster, statusApi, mutex, chanVars, workVars, panicked >>
    /\ UNCHANGED waitVars

\* updateInsightInStatusApi panics at line 143: the process dies.
UpdateInsightPanics ==
    /\ ~panicked
    /\ recvPc = "apply"
    /\ CanLock(mutex)
    /\ AssignPanics(statusApi)
    /\ panicked' = TRUE
    /\ syncRet' = NoRet
    /\ UNCHANGED << cluster, statusApi, mutex, chanVars, recvVars, queue,
                    workVars >>
    /\ UNCHANGED waitVars

\* Every worker that holds a fetched copy now holds a stale resourceVersion.
MarkDirty(self) ==
    [ w \in Workers |-> IF w # self /\ syncPc[w] \in { "lock", "update" }
                        THEN TRUE ELSE dirty[w] ]

\* The worker is back in the work queue loop.
Idle(w) ==
    /\ syncPc' = [ syncPc EXCEPT ![w] = "idle" ]
    /\ clusterCm' = [ clusterCm EXCEPT ![w] = NoCm ]
    /\ seenCm' = [ seenCm EXCEPT ![w] = NoState ]

\* The queue entry a sync with this key consumes.
Dequeued(key) == IF key = statusApiConfigMap THEN FALSE ELSE queue

\* The local queueKey of sync after lines 203-207.
NormalKey(key) == IF key = "" THEN statusApiConfigMap ELSE key

\* Whether sync goes on to commitStatusApiAsConfigMap (lines 208-214).
IsStatusApiKeyNoResync(key) == key = statusApiConfigMap

IsStatusApiKey(key) == NormalKey(key) = statusApiConfigMap

\* sync (lines 202-211) called with the key of another ConfigMap.
SyncOtherKey(w, key) ==
    /\ ~panicked
    /\ syncPc[w] = "idle"
    /\ ~IsStatusApiKey(key)
    /\ syncRet' = [ key |-> NormalKey(key), at |-> 210, err |-> "nil" ]
    /\ UNCHANGED << cluster, statusApi, mutex, chanVars, recvVars, queue,
                    workVars, panicked >>
    /\ UNCHANGED waitVars

\* sync -> commitStatusApiAsConfigMap, the Get reports NotFound (lines 159-164).
SyncGetNotFoundCreates(w, key) ==
    /\ ~panicked
    /\ syncPc[w] = "idle"
    /\ IsStatusApiKey(key)
    /\ ~cluster.exists
    /\ queue' = Dequeued(key)
    /\ cluster' = [ exists |-> TRUE, Data |-> statusApi.Data ]
    /\ syncRet' = [ key |-> NormalKey(key), at |-> 163, err |-> "nil" ]
    /\ UNCHANGED << statusApi, mutex, chanVars, recvVars, workVars, panicked >>
    /\ UNCHANGED waitVars

\* What sync(key) itself does on this path; the work queue is the caller's.
GetNotFound(w, key) ==
    /\ ~panicked
    /\ syncPc[w] = "idle"
    /\ IsStatusApiKey(key)
    /\ ~cluster.exists
    /\ syncRet' = [ key |-> NormalKey(key), at |-> 163, err |-> "nil" ]
    /\ UNCHANGED << cluster, statusApi, mutex, chanVars, recvVars, workVars,
                    panicked >>
    /\ UNCHANGED waitVars

SyncGetNotFound(w, key) ==
    /\ GetNotFound(w, key)
    /\ queue' = Dequeued(key)

\* sync -> commitStatusApiAsConfigMap, the Get fails otherwise (lines 165-166).
GetFails(w, key) ==
    /\ ~panicked
    /\ syncPc[w] = "idle"
    /\ IsStatusApiKey(key)
    /\ syncRet' = [ key |-> NormalKey(key), at |-> 166, err |-> "ApiError" ]
    /\ UNCHANGED << cluster, statusApi, mutex, chanVars, recvVars, workVars,
                    panicked >>
    /\ UNCHANGED waitVars

SyncGetFails(w, key) ==
    /\ GetFails(w, key)
    /\ queue' = Dequeued(key)

\* sync -> commitStatusApiAsConfigMap, the Get succeeds (line 159); the
\* worker goes on to c.statusApi.Lock() (line 169).
GetSucceeds(w, key) ==
    /\ ~panicked
    /\ syncPc[w] = "idle"
    /\ IsStatusApiKey(key)
    /\ cluster.exists
    /\ clusterCm' = [ clusterCm EXCEPT ![w] = GetResult(cluster) ]
    /\ dirty' = [ dirty EXCEPT ![w] = FALSE ]
    /\ syncPc' = [ syncPc EXCEPT ![w] = "lock" ]
    /\ syncRet' = NoRet
    /\ UNCHANGED << cluster, statusApi, mutex, chanVars, recvVars, seenCm, panicked >>
    /\ UNCHANGED waitVars

SyncGet(w, key) ==
    /\ GetSucceeds(w, key)
    /\ queue' = Dequeued(key)

\* Lines 172-177: no internal state yet, adopt the fetched ConfigMap.
BootstrappedEmpty(api, fetched) ==
    [ cmNil     |-> FALSE,
      dataNil   |-> FALSE,
      Data      |-> EmptyMap,
      processed |-> api.processed ]

Bootstrapped(api, fetched) ==
    [ cmNil     |-> FALSE,
      dataNil   |-> fetched.dataNil,
      Data      |-> fetched.Data,
      processed |-> api.processed ]

\* Whether the worker takes the early return of lines 172-177.
NoInternalState(api) == api.cmNil

\* commitStatusApiAsConfigMap from Lock() to the return of line 176.
SyncBootstrap(w) ==
    /\ ~panicked
    /\ syncPc[w] = "lock"
    /\ CanLock(mutex)
    /\ NoInternalState(statusApi)
    /\ statusApi' = Bootstrapped(statusApi, clusterCm[w])
    /\ syncRet' = [ key |-> statusApiConfigMap, at |-> 176, err |-> "nil" ]
    /\ Idle(w)
    /\ dirty' = [ dirty EXCEPT ![w] = FALSE ]
    /\ UNCHANGED << cluster, mutex, chanVars, recvVars, queue, panicked >>
    /\ UNCHANGED waitVars

\* commitStatusApiAsConfigMap from Lock() to line 196: the merge, and the
\* internal state replaced by the merged ConfigMap.  The worker keeps the
\* lock while it calls Update.
SyncMerge(w) ==
    /\ ~panicked
    /\ syncPc[w] = "lock"
    /\ CanLock(mutex)
    /\ ~NoInternalState(statusApi)
    /\ mutex' = w
    /\ seenCm' = [ seenCm EXCEPT ![w] = statusApi ]
    /\ statusApi' = [ cmNil     |-> FALSE,
                      dataNil   |-> MergedCm(clusterCm[w], statusApi).dataNil,
                      Data      |-> MergedCm(clusterCm[w], statusApi).Data,
                      processed |-> statusApi.processed ]
    /\ syncPc' = [ syncPc EXCEPT ![w] = "update" ]
    /\ syncRet' = NoRet
    /\ UNCHANGED << cluster, chanVars, recvVars, queue, clusterCm, dirty,
                    panicked >>
    /\ UNCHANGED waitVars

\* The errors configMaps.Update can return for the object the worker sends:
\* it never creates, and it rejects a stale resourceVersion.
UpdateErrors(w) ==
    { "ApiError" }
        \cup (IF ~cluster.exists THEN { "NotFound" } ELSE {})
        \cup (IF cluster.exists /\ dirty[w] THEN { "Conflict" } ELSE {})

\* The object in the cluster after a successful configMaps.Update(cm).
Updated(c, cm) == [ exists |-> c.exists, Data |-> cm.Data ]

\* configMaps.Update succeeds (line 198); the deferred Unlock runs.
SyncUpdate(w) ==
    /\ ~panicked
    /\ syncPc[w] = "update"
    /\ cluster.exists
    /\ ~dirty[w]
    /\ cluster' = Updated(cluster, statusApi)
    /\ dirty' = [ (IF statusApi.Data # cluster.Data THEN MarkDirty(w) ELSE dirty)
                    EXCEPT ![w] = FALSE ]
    /\ mutex' = "free"
    /\ syncRet' = [ key |-> statusApiConfigMap, at |-> 199, err |-> "nil" ]
    /\ Idle(w)
    /\ UNCHANGED << statusApi, chanVars, recvVars, queue, panicked >>
    /\ UNCHANGED waitVars

\* configMaps.Update fails (lines 198-199): the error is returned.
SyncUpdateFails(w, err) ==
    /\ ~panicked
    /\ syncPc[w] = "update"
    /\ err \in UpdateErrors(w)
    /\ mutex' = "free"
    /\ syncRet' = [ key |-> statusApiConfigMap, at |-> 199, err |-> err ]
    /\ Idle(w)
    /\ dirty' = [ dirty EXCEPT ![w] = FALSE ]
    /\ UNCHANGED << cluster, statusApi, chanVars, recvVars, queue, panicked >>
    /\ UNCHANGED waitVars

-----------------------------------------------------------------------------
(* The other actors of the cluster. *)

ExtFrame ==
    /\ syncRet' = NoRet
    /\ UNCHANGED << statusApi, mutex, chanVars, recvVars, queue, syncPc, clusterCm,
                 seenCm, panicked >>

ExtCreate(d) ==
    /\ ~cluster.exists
    /\ cluster' = [ exists |-> TRUE, Data |-> d ]
    /\ dirty' = MarkDirty("")
    /\ ExtFrame
    /\ UNCHANGED waitVars

ExtDelete ==
    /\ cluster.exists
    /\ cluster' = [ exists |-> FALSE, Data |-> EmptyMap ]
    /\ dirty' = MarkDirty("")
    /\ ExtFrame
    /\ UNCHANGED waitVars

ExtSet(k, v) ==
    /\ cluster.exists
    /\ IF k \in DOMAIN cluster.Data THEN cluster.Data[k] # v ELSE TRUE
    /\ cluster' = [ cluster EXCEPT !.Data =
                      [ x \in DOMAIN cluster.Data \cup { k } |->
                          IF x = k THEN v ELSE cluster.Data[x] ] ]
    /\ dirty' = MarkDirty("")
    /\ ExtFrame
    /\ UNCHANGED waitVars

ExtRemove(k) ==
    /\ cluster.exists
    /\ k \in DOMAIN cluster.Data
    /\ cluster' = [ cluster EXCEPT !.Data =
                      Restrict(cluster.Data, DOMAIN cluster.Data \ { k }) ]
    /\ dirty' = MarkDirty("")
    /\ ExtFrame
    /\ UNCHANGED waitVars

-----------------------------------------------------------------------------
(* waitForOperatorStatusToBeDone: data. *)

\* The operand names of the model, in the ascending order of sort.Strings.
OperandOrder == << "etcd", "kube-apiserver", "operator" >>

OperandNames == { OperandOrder[i] : i \in DOMAIN OperandOrder }

OldVersion == "4.9.5"
NewVersion == "4.10.0"

Op(name, version) == [ Name |-> name, Version |-> version ]

\* expected.Status.Versions: the manifests list each operand once, not in
\* sorted order.
ExpectedVersions ==
    { << >>,
      << Op("operator", NewVersion) >>,
      << Op("operator", NewVersion), Op("kube-apiserver", NewVersion) >>,
      << Op("operator", NewVersion), Op("kube-apiserver", NewVersion),
         Op("etcd", NewVersion) >> }

OperatorName == "kube-apiserver-operator"

Modes == { "InitializingMode", "DefaultMode" }

\* The order in which the model lists the conditions of most statuses.
ConditionOrder == << "Available", "Progressing", "Failing", "Degraded" >>

\* What a status says per condition type: "absent" or the condition's status.
ConditionChoices ==
    [ Available   : { "absent", "True", "False" },
      Progressing : { "absent", "True", "False" },
      Failing     : { "absent", "True", "False" },
      Degraded    : { "absent", "True", "False", "Unknown" },
      DegradedMsg : { "", "etcd members are unhealthy" } ]

FailingMsg == "failing: quorum lost"

ConditionOf(type, c) ==
    [ Type    |-> type,
      Status  |-> c[type],
      Message |-> IF type = "Degraded" THEN c.DegradedMsg
                  ELSE IF type = "Failing" THEN FailingMsg ELSE "" ]

IsPresent(cond) == cond.Status # "absent"

ConditionsOf(order, c) ==
    SelectSeq([ i \in DOMAIN order |-> ConditionOf(order[i], c) ], IsPresent)

AllConditions ==
    { ConditionsOf(ConditionOrder, c) :
        c \in { x \in ConditionChoices :
                  x.Degraded # "True" => x.DegradedMsg = "" } }

\* Lists of conditions in another order, and with a Failing condition that
\* is neither True nor False.
OtherConditions ==
    { << [ Type |-> "Degraded", Status |-> "True", Message |-> "" ],
         [ Type |-> "Failing", Status |-> "False", Message |-> FailingMsg ],
         [ Type |-> "Progressing", Status |-> "False", Message |-> "" ],
         [ Type |-> "Available", Status |-> "True", Message |-> "" ] >>,
      << [ Type |-> "Degraded", Status |-> "False", Message |-> "" ],
         [ Type |-> "Failing", Status |-> "True", Message |-> FailingMsg ],
         [ Type |-> "Progressing", Status |-> "False", Message |-> "" ],
         [ Type |-> "Available", Status |-> "True", Message |-> "" ] >>,
      << [ Type |-> "Failing", Status |-> "Unknown", Message |-> FailingMsg ],
         [ Type |-> "Available", Status |-> "True", Message |-> "" ],
         [ Type |-> "Progressing", Status |-> "False", Message |-> "" ] >> }

\* Conditions the model combines with every choice of operand versions.
SomeConditions ==
    { << >>,
      << [ Type |-> "Available", Status |-> "True", Message |-> "" ],
         [ Type |-> "Progressing", Status |-> "False", Message |-> "" ],
         [ Type |-> "Degraded", Status |-> "False", Message |-> "" ] >> }

VersionChoices ==
    [ OperandNames -> { "absent", OldVersion, NewVersion } ]

IsReported(op) == op.Version # "absent"

VersionsOf(vc) ==
    SelectSeq([ i \in DOMAIN OperandOrder |->
                  Op(OperandOrder[i], vc[OperandOrder[i]]) ], IsReported)

AllVersions == { VersionsOf(vc) : vc \in VersionChoices }

UpToDate == VersionsOf([ n \in OperandNames |-> NewVersion ])

\* The ClusterOperator objects client.Get returns in the model: every list
\* of conditions with all operands at the new version, and every list of
\* operand versions with a few lists of conditions.
Statuses ==
    { [ Name |-> OperatorName, Versions |-> UpToDate, Conditions |-> cs ] :
        cs \in AllConditions \cup OtherConditions }
    \cup
    { [ Name |-> OperatorName, Versions |-> vs, Conditions |-> cs ] :
        vs \in AllVersions, cs \in SomeConditions }

NoStatus == [ Name |-> "", Versions |-> << >>, Conditions |-> << >> ]

\* client.Get: the object, or an error.
GetOk(st) == [ err |-> "nil", actual |-> st ]
GetFailed == [ err |-> "get failed", actual |-> NoStatus ]
NoGet == [ err |-> "none", actual |-> NoStatus ]

NoErr == [ Reason |-> "", Message |-> << >>, Name |-> "", Nested |-> << >> ]

ErrWaitTimeout ==
    [ Reason |-> "", Message |-> << "timed out waiting for the condition" >>,
      Name |-> "", Nested |-> << >> ]

-----------------------------------------------------------------------------
(* waitForOperatorStatusToBeDone: the poll function (lines 198-332). *)

Min(S) == CHOOSE x \in S : \A y \in S : x <= y

\* Lines 210-224: the map undone, operand -> <<expected>> or
\* <<expected, actual>>.
RECURSIVE UndoneFrom(_, _, _)
UndoneFrom(exps, acts, undone) ==
    IF exps = << >> THEN undone
    ELSE LET e     == Head(exps)
             idx   == { j \in DOMAIN acts : acts[j].Name = e.Name }
             withE == [ n \in DOMAIN undone \cup { e.Name } |->
                          IF n = e.Name THEN << e.Version >> ELSE undone[n] ]
             next  == IF idx = {} THEN withE
                      ELSE IF acts[Min(idx)].Version = e.Version
                           THEN Restrict(withE, DOMAIN withE \ { e.Name })
                           ELSE [ withE EXCEPT ![e.Name] =
                                    << e.Version, acts[Min(idx)].Version >> ]
         IN  UndoneFrom(Tail(exps), acts, next)

UndoneIgnoringOperator(exp, act) ==
    LET u == UndoneFrom(exp.Versions, act.Versions, EmptyMap)
    IN  Restrict(u, DOMAIN u \ { "operator" })

Undone(exp, act) == UndoneFrom(exp.Versions, act.Versions, EmptyMap)

\* The bytes of the operand names: sort.Strings compares strings bytewise.
NameBytes ==
    [ n \in OperandNames |->
        CASE n = "etcd"           -> << 101, 116, 99, 100 >>
          [] n = "kube-apiserver" -> << 107, 117, 98, 101, 45, 97, 112, 105, 115, 101, 114, 118, 101, 114 >>
          [] n = "operator"       -> << 111, 112, 101, 114, 97, 116, 111, 114 >> ]

\* a < b for Go strings given as byte sequences.
RECURSIVE BytesLess(_, _)
BytesLess(a, b) ==
    IF b = << >> THEN FALSE
    ELSE IF a = << >> THEN TRUE
    ELSE IF Head(a) # Head(b) THEN Head(a) < Head(b)
    ELSE BytesLess(Tail(a), Tail(b))

StringLess(m, n) == BytesLess(NameBytes[m], NameBytes[n])

\* The keys of undone in descending order.
SortedKeysDescending(undone) ==
    LET S == DOMAIN undone
    IN  [ i \in 1..Cardinality(S) |->
            CHOOSE n \in S :
                Cardinality({ m \in S : StringLess(n, m) }) = i - 1 ]

\* Lines 226-230: the keys of undone, sorted by sort.Strings.
SortedKeys(undone) ==
    LET S == DOMAIN undone
    IN  [ i \in 1..Cardinality(S) |->
            CHOOSE n \in S :
                Cardinality({ m \in S : StringLess(m, n) }) = i - 1 ]

\* Lines 232-244: the report of one operand.
Report(op, ver) ==
    IF Len(ver) = 1
    THEN << "missing version information for", op >>
    ELSE << "upgrading", op, "from", ver[2], "to", ver[1] >>

RECURSIVE ReportsOf(_, _)
ReportsOf(keys, undone) ==
    IF keys = << >> THEN << >>
    ELSE IF Head(keys) = "operator"
         THEN ReportsOf(Tail(keys), undone)
         ELSE << Report(Head(keys), undone[Head(keys)]) >>
                  \o ReportsOf(Tail(keys), undone)

\* A message "Cluster operator <name> <text>[: <detail>]" and lowerFirst of it.
Msg(name, text, detail) ==
    << "Cluster operator", name, text, detail >>

lowerFirst(msg) == << "cluster operator" >> \o Tail(msg)

\* Lines 201-206.
GetFailedErrorUnwrapped(exp, err) ==
    [ Reason |-> "", Message |-> << err >>, Name |-> "", Nested |-> << >> ]

GetFailedError(exp, err) ==
    [ Reason  |-> "ClusterOperatorNotAvailable",
      Message |-> Msg(exp.Name, "has not yet reported success", << >>),
      Name    |-> exp.Name,
      Nested  |-> << err >> ]

\* Lines 245-254.
StillUpdatingError(act, undone) ==
    LET message == Msg(act.Name, "is still updating",
                       ReportsOf(SortedKeys(undone), undone))
    IN  [ Reason  |-> "ClusterOperatorNotAvailable",
          Message |-> message,
          Name    |-> act.Name,
          Nested  |-> lowerFirst(message) ]

\* Lines 258-282: the loop over actual.Status.Conditions.
NoCondition == [ Type |-> "", Status |-> "absent", Message |-> "" ]

\* A scan that starts from "not failing, not degraded".
ScanStartNotDegraded ==
    [ available |-> FALSE, progressing |-> TRUE, failing |-> FALSE,
      failingCondition |-> NoCondition, degradedValue |-> FALSE,
      degradedCondition |-> NoCondition ]

ScanStart ==
    [ available |-> FALSE, progressing |-> TRUE, failing |-> TRUE,
      failingCondition |-> NoCondition, degradedValue |-> TRUE,
      degradedCondition |-> NoCondition ]

ScanStep(s, condition) ==
    IF condition.Type = "Available" /\ condition.Status = "True"
    THEN [ s EXCEPT !.available = TRUE ]
    ELSE IF condition.Type = "Progressing" /\ condition.Status = "False"
    THEN [ s EXCEPT !.progressing = FALSE ]
    ELSE IF condition.Type = "Failing"
    THEN [ s EXCEPT !.failing = IF condition.Status = "False" THEN FALSE ELSE @,
                    !.failingCondition = condition ]
    ELSE IF condition.Type = "Degraded"
    THEN [ s EXCEPT !.degradedValue = IF condition.Status = "False" THEN FALSE ELSE @,
                    !.degradedCondition = condition ]
    ELSE s

RECURSIVE Scan(_, _)
Scan(s, conditions) ==
    IF conditions = << >> THEN s
    ELSE Scan(ScanStep(s, Head(conditions)), Tail(conditions))

\* Lines 284-288.
DegradedOfFailingFirst(s) ==
    IF s.failingCondition # NoCondition THEN s.failing ELSE s.degradedValue

DegradedOf(s) ==
    IF s.degradedCondition # NoCondition THEN s.degradedValue ELSE s.failing

\* Lines 290-303.
IsDoneIgnoringMode(m, exp, s) ==
    s.available /\ (~s.progressing \/ Len(exp.Versions) > 0) /\ ~DegradedOf(s)

IsDone(m, exp, s) ==
    IF m = "InitializingMode"
    THEN s.available /\ (~s.progressing \/ Len(exp.Versions) > 0)
    ELSE s.available /\ (~s.progressing \/ Len(exp.Versions) > 0) /\ ~DegradedOf(s)

\* Lines 305-308.
FailureConditionOf(s) ==
    IF s.degradedCondition # NoCondition
    THEN s.degradedCondition ELSE s.failingCondition

\* Lines 309-320.
ReportingFailureError(act, condition) ==
    LET message == Msg(act.Name, "is reporting a failure",
                       IF Len(condition.Message) > 0
                       THEN << condition.Message >> ELSE << >>)
    IN  [ Reason  |-> "ClusterOperatorDegraded",
          Message |-> message,
          Name    |-> act.Name,
          Nested  |-> lowerFirst(message) ]

\* Lines 323-330.
NotDoneError(act, s) ==
    [ Reason  |-> "ClusterOperatorNotAvailable",
      Message |-> Msg(act.Name, "has not yet reported success", << >>),
      Name    |-> act.Name,
      Nested  |-> << "cluster operator", act.Name, "is not done; it is",
                     [ available |-> s.available, progressing |-> s.progressing,
                       degraded |-> DegradedOf(s) ] >> ]

\* Whether the operand check of line 225 ends the poll.
HasUndone(undone) == DOMAIN undone # {}

\* One call of the poll function: [done, err], err the value it leaves in
\* lastErr (NoErr when it assigns none).
Condition(exp, m, g) ==
    IF g.err # "nil"
    THEN [ done |-> FALSE, err |-> GetFailedError(exp, g.err) ]
    ELSE LET undone == Undone(exp, g.actual)
             s      == Scan(ScanStart, g.actual.Conditions)
             cond   == FailureConditionOf(s)
         IN  IF HasUndone(undone)
             THEN [ done |-> FALSE, err |-> StillUpdatingError(g.actual, undone) ]
             ELSE IF IsDone(m, exp, s)
             THEN [ done |-> TRUE, err |-> NoErr ]
             ELSE IF cond # NoCondition /\ cond.Status = "True"
             THEN [ done |-> FALSE, err |-> ReportingFailureError(g.actual, cond) ]
             ELSE [ done |-> FALSE, err |-> NotDoneError(g.actual, s) ]

-----------------------------------------------------------------------------
(* waitForOperatorStatusToBeDone: the call (lines 186-348). *)

NotReturned == [ returned |-> FALSE, err |-> NoErr ]

\* eventRecorder.Eventf (lines 195, 338, 342, 346): the recorder keeps the
\* events in the order of the calls.
EventfLost(evs, reason) == evs

Eventf(evs, reason) == Append(evs, reason)

WaitInit ==
    /\ expected \in { [ Name |-> OperatorName, Versions |-> v ] :
                        v \in ExpectedVersions }
    /\ mode \in Modes
    /\ waitPc = "call"
    /\ ctxDone \in BOOLEAN
    /\ got = NoGet
    /\ lastErr = NoErr
    /\ polls = 0
    /\ recorded = NoErr
    /\ waitRet = NotReturned
    /\ events = << >>

\* Lines 187-197: the start event, then wait.PollImmediateUntil.
WaitCall ==
    /\ waitPc = "call"
    /\ events' = Eventf(events, "ClusterOperatorWaitStarted")
    /\ waitPc' = "first"
    /\ UNCHANGED << expected, mode, ctxDone, got, lastErr, polls, recorded,
                    waitRet >>
    /\ UNCHANGED uscVars

\* The context is cancelled, or its deadline passes.
Cancel ==
    /\ waitPc # "done"
    /\ ~ctxDone
    /\ ctxDone' = TRUE
    /\ UNCHANGED << expected, mode, waitPc, got, lastErr, polls, recorded,
                    waitRet, events >>
    /\ UNCHANGED uscVars

\* lastErr after the poll function assigned err to it.
RecordedKeepFirst(old, err) == IF old = NoErr THEN err ELSE old

Recorded(old, err) == err

\* Lines 337-344: the error the call returns when PollImmediateUntil
\* returned err.
ReturnedError(err, last) ==
    IF err = ErrWaitTimeout /\ last # NoErr THEN last ELSE err

\* Lines 334-344: PollImmediateUntil returned ErrWaitTimeout.
WaitFailed ==
    /\ events' = Eventf(events, "ClusterOperatorWaitFailed")
    /\ waitRet' = [ returned |-> TRUE,
                    err |-> ReturnedError(ErrWaitTimeout, lastErr) ]
    /\ waitPc' = "done"

\* One call of the poll function with what client.Get returns: the first,
\* immediate one of PollImmediateUntil, or one at a tick of its loop (the
\* select of the loop can take a tick that is ready although the stop
\* channel is closed).  A poll that is done ends the call: lines 346-347.
Poll(g) ==
    LET c == Condition(expected, mode, g)
    IN  /\ waitPc \in { "first", "loop" }
        /\ polls < MaxPolls
        /\ got' = g
        /\ polls' = polls + 1
        /\ recorded' = c.err
        /\ IF c.done
           THEN /\ lastErr' = lastErr
                /\ events' = Eventf(events, "ClusterOperatorWaitSucceeded")
                /\ waitRet' = [ returned |-> TRUE, err |-> NoErr ]
                /\ waitPc' = "done"
           ELSE /\ lastErr' = Recorded(lastErr, c.err)
                /\ waitPc' = IF waitPc = "first" THEN "stop?" ELSE "loop"
                /\ UNCHANGED << events, waitRet >>
        /\ UNCHANGED << expected, mode, ctxDone >>
        /\ UNCHANGED uscVars

\* PollImmediateUntil after the first poll: the stop channel is closed.
StopCheckStopped ==
    /\ waitPc = "stop?"
    /\ ctxDone
    /\ WaitFailed
    /\ UNCHANGED << expected, mode, ctxDone, got, lastErr, polls, recorded >>
    /\ UNCHANGED uscVars

\* PollImmediateUntil after the first poll: go on to the poll loop.
StopCheckContinue ==
    /\ waitPc = "stop?"
    /\ ~ctxDone
    /\ waitPc' = "loop"
    /\ UNCHANGED << expected, mode, ctxDone, got, lastErr, polls, recorded,
                    waitRet, events >>
    /\ UNCHANGED uscVars

\* The poll loop takes the closed stop channel.
LoopStopped ==
    /\ waitPc = "loop"
    /\ ctxDone
    /\ WaitFailed
    /\ UNCHANGED << expected, mode, ctxDone, got, lastErr, polls, recorded >>
    /\ UNCHANGED uscVars

WaitNext ==
    \/ WaitCall
    \/ Cancel
    \/ \E st \in Statuses : Poll(GetOk(st))
    \/ Poll(GetFailed)
    \/ StopCheckStopped
    \/ StopCheckContinue
    \/ LoopStopped

-----------------------------------------------------------------------------
(* Specifications. *)

\* The waiter before any call.
WaitParked ==
    /\ expected = [ Name |-> OperatorName, Versions |-> << >> ]
    /\ mode = "DefaultMode"
    /\ waitPc = "call"
    /\ ctxDone = FALSE
    /\ got = NoGet
    /\ lastErr = NoErr
    /\ polls = 0
    /\ recorded = NoErr
    /\ waitRet = NotReturned
    /\ events = << >>

\* The controller before any step.
UscParked ==
    /\ UscInit
    /\ ~cluster.exists

Sends(P) ==
    \/ \E p \in P, msg \in Messages : SendInsight(p, msg)
    \/ \E p \in P, msg \in Messages : SendInsightBlocks(p, msg)
    \/ \E p \in P : SendInsightResumes(p)

Receiver ==
    \/ StartInsightReceiver
    \/ ReceiveInsight
    \/ StopInsightReceiver
    \/ UpdateInsightInStatusApi
    \/ QueueAdd
    \/ UpdateInsightPanics

Syncs(W) ==
    \/ \E w \in W, key \in QueueKeys : SyncOtherKey(w, key)
    \/ \E w \in W, key \in QueueKeys : SyncGetNotFound(w, key)
    \/ \E w \in W, key \in QueueKeys : SyncGetFails(w, key)
    \/ \E w \in W, key \in QueueKeys : SyncGet(w, key)
    \/ \E w \in W : SyncBootstrap(w)
    \/ \E w \in W : SyncMerge(w)
    \/ \E w \in W : SyncUpdate(w)
    \/ \E w \in W, err \in { "ApiError", "NotFound", "Conflict" } :
           SyncUpdateFails(w, err)

OtherActors ==
    \/ \E d \in CreateDatas : ExtCreate(d)
    \/ ExtDelete
    \/ \E k \in Keys, v \in Contents \cup ForeignValues :
           v \in ValuesOf(k) /\ ExtSet(k, v)
    \/ \E k \in Keys : ExtRemove(k)

\* The controller with one producer and one sync worker, among other actors
\* that create, edit and delete the ConfigMap at any time.
UscNext == Sends({ "p1" }) \/ Receiver \/ Syncs({ "w1" }) \/ OtherActors

Init == UscInit /\ WaitParked

Spec == Init /\ [][UscNext]_vars

\* The controller with concurrent producers and concurrent sync workers; the
\* ConfigMap is changed by the controller alone.
PipeNext == Sends(Producers) \/ Receiver \/ Syncs(Workers)

PipeSpec == Init /\ [][PipeNext]_vars

\* The controller with a ConfigMap that exists and is left to the
\* controller, Get and Update calls that succeed, and a scheduler that runs
\* the sync of a queued key: the work queue hands every key it holds to the
\* worker, the worker and the receiver go on with what they have begun.
LiveInit == Init /\ cluster.exists

QueuedSync(w) == queue /\ SyncGet(w, statusApiConfigMap)

LiveNext ==
    \/ Sends({ "p1" })
    \/ Receiver
    \/ \E key \in { "", statusApiConfigMap } : SyncGet("w1", key)
    \/ SyncBootstrap("w1")
    \/ SyncMerge("w1")
    \/ SyncUpdate("w1")

LiveSpec ==
    /\ LiveInit
    /\ [][LiveNext]_vars
    /\ WF_vars(QueueAdd)
    /\ SF_vars(QueuedSync("w1"))
    /\ WF_vars(SyncBootstrap("w1"))
    /\ WF_vars(SyncMerge("w1"))
    /\ WF_vars(SyncUpdate("w1"))

\* One call of waitForOperatorStatusToBeDone.
WaitStart == WaitInit /\ UscParked

WaitSpec == WaitStart /\ [][WaitNext]_vars

-----------------------------------------------------------------------------
(* Claims about the controller. *)

\* The message the receiver took from the channel and has not applied yet.
InHand == IF recvPc = "apply" THEN 1 ELSE 0

\* C1: every update issued by commitStatusApiAsConfigMap carries each foreign
\* key of the ConfigMap it fetched, with the fetched value, and carries no
\* foreign key the fetched ConfigMap did not have.  (The worker is about to
\* call Update with c.statusApi.cm when it is at "update".)
C1_ForeignKeysNeverAltered ==
    \A w \in Workers :
        syncPc[w] = "update" =>
            /\ \A k \in ForeignKeysOf(clusterCm[w].Data) :
                   /\ k \in DOMAIN statusApi.Data
                   /\ statusApi.Data[k] = clusterCm[w].Data[k]
            /\ \A k \in ForeignKeysOf(statusApi.Data) :
                   k \in DOMAIN clusterCm[w].Data

\* C2: in every commit, the managed keys of the written ConfigMap are exactly
\* the ids of the desired state the commit read, each with the desired
\* content, and a managed key of the fetched ConfigMap that the desired state
\* lacks is dropped.
C2_MergePurity ==
    \A w \in Workers :
        syncPc[w] = "update" =>
            /\ ManagedKeys(statusApi.Data) = DOMAIN seenCm[w].Data
            /\ \A k \in DOMAIN seenCm[w].Data :
                   k \in DOMAIN statusApi.Data
                       => statusApi.Data[k] = seenCm[w].Data[k]
            /\ \A k \in ManagedKeys(clusterCm[w].Data) :
                   k \notin DOMAIN seenCm[w].Data => k \notin DOMAIN statusApi.Data

\* C3: the controller never creates the ConfigMap: a step in which an absent
\* ConfigMap becomes present is no step of the controller, and a sync whose
\* Get reports NotFound (the return of line 163) returns nil, writes nothing
\* and leaves the internal state as it was.
C3_NeverCreated ==
    [][ /\ (~cluster.exists /\ cluster'.exists)
            => /\ syncRet' = NoRet
               /\ UNCHANGED << statusApi, mutex, chanVars, recvVars, queue,
                               syncPc, clusterCm, seenCm, panicked >>
        /\ syncRet'.at = 163
            => /\ syncRet'.err = "nil"
               /\ ~cluster.exists
               /\ cluster' = cluster
               /\ statusApi' = statusApi ]_uscVars

\* A sync found the ConfigMap absent although insights had been applied.
C3_Witness ==
    /\ syncRet.at = 163
    /\ ~cluster.exists
    /\ statusApi.processed > 0
    /\ KeyUscA \in DOMAIN statusApi.Data

\* C4: a sync that finds no internal state adopts the data of the ConfigMap
\* it fetched, calls no Update and returns nil; a worker only goes on to
\* Update when it found internal state, and the controller writes the
\* ConfigMap in no other step.
C4_BootstrapWithoutWrite ==
    [][ \A w \in Workers :
          /\ (syncPc[w] = "lock" /\ syncPc'[w] # "lock" /\ statusApi.cmNil)
                => /\ syncPc'[w] = "idle"
                   /\ ~statusApi'.cmNil
                   /\ statusApi'.Data = clusterCm[w].Data
                   /\ statusApi'.processed = statusApi.processed
                   /\ cluster' = cluster
                   /\ syncRet'.err = "nil"
          /\ (syncPc[w] # "update" /\ syncPc'[w] = "update")
                => ~statusApi.cmNil
          /\ (cluster' # cluster /\ syncRet' # NoRet)
                => \E v \in Workers : syncPc[v] = "update" ]_uscVars

\* The first sync has adopted a ConfigMap with data, before any insight.
C4_Witness ==
    /\ syncRet.at = 176
    /\ statusApi.processed = 0
    /\ statusApi.Data # EmptyMap
    /\ cluster.exists
    /\ cluster.Data = statusApi.Data

\* Every message sent so far has been taken from the channel and applied.
AllApplied == fromInformers = << >> /\ recvPc # "apply"

C6_SendsEqualProcessedPlusMailbox ==
    sendsReturned = statusApi.processed + Len(fromInformers)

\* C6, amended: a send blocks exactly when the channel is full and returns
\* without any step of the receiver when it is not; no message is dropped or
\* applied twice: the number of sends that returned always equals processed
\* plus the messages in the channel plus the message the receiver has taken
\* from the channel and not applied yet.
C6_Backpressure ==
    /\ [](/\ sendsReturned = statusApi.processed + Len(fromInformers) + InHand
          /\ Len(fromInformers) <= ChanCap)
    /\ [][ /\ sendsReturned' # sendsReturned
               => /\ Len(fromInformers) < ChanCap
                  /\ sendsReturned' = sendsReturned + 1
                  /\ Len(fromInformers') = Len(fromInformers) + 1
                  /\ UNCHANGED << recvVars, statusApi >>
           /\ \A p \in Producers :
                  /\ (prodPc[p] = "idle" /\ prodPc'[p] = "blocked")
                        => Len(fromInformers) = ChanCap
                  /\ (prodPc[p] = "blocked" /\ prodPc'[p] = "idle")
                        => /\ sendsReturned' = sendsReturned + 1
                           /\ fromInformers' = Append(fromInformers, prodMsg[p])
         ]_uscVars

\* The receiver holds a message while a commit holds the lock, the channel
\* is full and a producer is blocked.
C6_Witness ==
    /\ recvPc = "apply"
    /\ mutex # "free"
    /\ Len(fromInformers) = ChanCap
    /\ \E p \in Producers : prodPc[p] = "blocked"

\* Sends returned before the receiver loop was started.
C6_WitnessNotStarted ==
    /\ recvPc = "notstarted"
    /\ sendsReturned = ChanCap

\* The first step of sync(key) that goes on to commitStatusApiAsConfigMap.
Fetches(w, key) ==
    GetNotFound(w, key) \/ GetFails(w, key) \/ GetSucceeds(w, key)

\* C13: a sync called with the key of another ConfigMap fetches nothing and
\* returns nil at once, with the ConfigMap, the internal state, the lock and
\* every worker as they were; a sync called with the empty key takes exactly
\* the steps of a sync called with statusApiConfigMap, and neither returns
\* at the key filter.
C13_TriggerKeyFilter ==
    [][ \A w \in Workers :
          /\ \A key \in QueueKeys \ { "", statusApiConfigMap } :
                 /\ ~Fetches(w, key)
                 /\ (syncRet' # NoRet /\ syncRet'.key = key)
                       => /\ syncRet'.err = "nil"
                          /\ UNCHANGED << cluster, statusApi, mutex, workVars,
                                          chanVars, recvVars, queue, panicked >>
          /\ ~SyncOtherKey(w, "")
          /\ ~SyncOtherKey(w, statusApiConfigMap)
          /\ GetNotFound(w, "") <=> GetNotFound(w, statusApiConfigMap)
          /\ GetFails(w, "") <=> GetFails(w, statusApiConfigMap)
          /\ GetSucceeds(w, "") <=> GetSucceeds(w, statusApiConfigMap)
      ]_uscVars

\* C13 happens: a sync with the key of another ConfigMap returned while the
\* internal state differs from the ConfigMap and the key is queued.
C13_Witness ==
    /\ syncRet.key = "other-cm"
    /\ syncRet.err = "nil"
    /\ queue
    /\ cluster.exists
    /\ ~statusApi.cmNil
    /\ ManagedKeys(statusApi.Data) # ManagedKeys(cluster.Data)

\* C14: a sync that finds the ConfigMap absent returns nil: sync never
\* returns a NotFound error, whatever other actors create and delete; the
\* errors it returns are those of Get and Update of another kind.
C14_AbsenceNeverEscalated ==
    syncRet # NoRet =>
        /\ syncRet.at = 163 => syncRet.err = "nil"
        /\ syncRet.err # "NotFound"
        /\ syncRet.err \in { "nil", "ApiError", "Conflict" }

\* A sync returned the NotFound of its Update: the ConfigMap was deleted
\* after the Get of the same sync.
C14_UpdateNotFoundReturned ==
    /\ syncRet.at = 199
    /\ syncRet.err = "NotFound"
    /\ ~cluster.exists

\* The workers between reading the internal state (line 181) and the return
\* of their Update (line 199).
Committing == { w \in Workers : syncPc[w] = "update" }

\* C15: at most one worker is between reading the internal state and the
\* return of its Update, and it holds the lock; while it is there no insight
\* is applied and no other sync changes the internal state; the content it
\* is about to write, and writes, holds every entry the internal state had
\* when it read it, and an applied insight is in the internal state from the
\* step that applies it.
C15_CommitSerialization ==
    /\ [](/\ Cardinality(Committing) <= 1
          /\ \A w \in Workers : syncPc[w] = "update" <=> mutex = w
          /\ \A w \in Committing :
                 \A k \in DOMAIN seenCm[w].Data :
                     /\ k \in DOMAIN statusApi.Data
                     /\ statusApi.Data[k] = seenCm[w].Data[k])
    /\ [][ /\ Committing # {} => statusApi' = statusApi
           /\ statusApi'.processed # statusApi.processed
                 => /\ mutex = "free"
                    /\ Committing = {}
                    /\ insight.uid \in DOMAIN statusApi'.Data
                    /\ statusApi'.Data[insight.uid] = insight.insight
           /\ \A w \in Committing :
                 (cluster' # cluster /\ syncRet' # NoRet)
                     => /\ cluster'.Data = statusApi.Data
                        /\ \A k \in DOMAIN seenCm[w].Data :
                               /\ k \in DOMAIN cluster'.Data
                               /\ cluster'.Data[k] = seenCm[w].Data[k]
         ]_uscVars

\* C15 happens: one worker is in its Update with an applied insight to
\* write, while the other worker waits for the lock with a copy it fetched
\* earlier and the receiver waits for the lock with the next insight.
C15_Witness ==
    /\ syncPc["w1"] = "update"
    /\ syncPc["w2"] = "lock"
    /\ recvPc = "apply"
    /\ statusApi.processed > 0
    /\ KeyUscA \in DOMAIN statusApi.Data
    /\ KeyUscA \notin DOMAIN cluster.Data
    /\ insight.insight # statusApi.Data[KeyUscA]

\* The ConfigMap holds every insight of the internal state, with its content.
Reflected ==
    /\ cluster.exists
    /\ \A k \in ManagedKeys(statusApi.Data) :
           /\ k \in DOMAIN cluster.Data
           /\ cluster.Data[k] = statusApi.Data[k]

\* C16: the receiver adds statusApiConfigMap to the queue after every
\* insight it applies, as its next step; every write of the controller
\* replaces the data of the ConfigMap as a whole by the internal state; and,
\* the ConfigMap existing and queued syncs running to a successful Update,
\* once n insights are applied the ConfigMap eventually holds every insight
\* of an internal state with at least n applied, with its content.
C16_EventualReflection ==
    /\ [][ /\ statusApi'.processed # statusApi.processed
                 => /\ recvPc' = "enqueue"
                    /\ queue' = queue
           /\ (recvPc = "enqueue" /\ recvPc' # "enqueue")
                 => /\ queue'
                    /\ recvPc' = "select"
                    /\ statusApi' = statusApi
           /\ cluster' # cluster
                 => /\ cluster'.Data = statusApi.Data
                    /\ statusApi' = statusApi
         ]_uscVars
    /\ \A n \in 1..MaxSends :
           (statusApi.processed = n)
               ~> (Reflected /\ statusApi.processed >= n)

\* The liveness part of C16 alone.
C16_Eventually ==
    \A n \in 1..MaxSends :
        (statusApi.processed = n) ~> (Reflected /\ statusApi.processed >= n)

\* C16 happens: two insights for one id were applied and the sync queued by
\* the second wrote its content over the first.
C16_Witness ==
    /\ statusApi.processed = 2
    /\ syncRet.at = 199
    /\ syncRet.err = "nil"
    /\ ~queue
    /\ Reflected
    /\ cluster.Data[KeyUscA] = "B"
    /\ lastSent[KeyUscA] = "B"

\* C19: an insight received after a bootstrap sync is applied like any
\* other, whatever the bootstrapped ConfigMap held, a ConfigMap without data
\* included: the receiver never dies in updateInsightInStatusApi, and when
\* it has applied an insight the internal state maps the uid to its content.
C19_ApplyAfterBootstrap ==
    /\ ~panicked
    /\ recvPc = "enqueue"
           => /\ statusApi.processed > 0
              /\ insight.uid \in DOMAIN statusApi.Data
              /\ statusApi.Data[insight.uid] = insight.insight

\* The receiver died applying the first insight after a bootstrap sync.
C19_PanicAfterBootstrap ==
    /\ panicked
    /\ recvPc = "apply"
    /\ ~statusApi.cmNil
    /\ statusApi.dataNil
    /\ statusApi.processed = 0

\* The insight ids the receiver has applied: the internal state holds them
\* from the first apply on.
AppliedIds ==
    IF statusApi.processed > 0
    THEN InsightUids \cap DOMAIN statusApi.Data
    ELSE {}

\* The step is the successful return of a worker's Update.
UpdateSucceeds ==
    \E w \in Committing :
        /\ syncPc'[w] # "update"
        /\ syncRet' # NoRet
        /\ syncRet'.err = "nil"

\* C20: applied insights are only changed by an apply: a step that applies
\* no insight (a commit, a failed update, a sync for another key, for an
\* absent ConfigMap or with a failed fetch, an edit by another actor) keeps
\* every applied id in the internal state with its content, and a successful
\* update writes exactly the managed content of the internal state.
C20_AppliedOnlyChangedByApply ==
    [][ /\ statusApi'.processed = statusApi.processed
            => \A k \in AppliedIds :
                   /\ k \in DOMAIN statusApi'.Data
                   /\ statusApi'.Data[k] = statusApi.Data[k]
        /\ UpdateSucceeds
            => Restrict(cluster'.Data, ManagedKeys(cluster'.Data))
                   = Restrict(statusApi.Data, ManagedKeys(statusApi.Data))
      ]_uscVars

\* An update has just failed while the ConfigMap in the cluster holds other
\* content for the applied id: the insight lives on in the internal state.
C20_Witness ==
    /\ syncRet # NoRet
    /\ syncRet.at = 199
    /\ syncRet.err # "nil"
    /\ AppliedIds = { KeyUscA }
    /\ statusApi.Data[KeyUscA] = "B"
    /\ cluster.exists
    /\ KeyUscA \in DOMAIN cluster.Data
    /\ cluster.Data[KeyUscA] = "A"

-----------------------------------------------------------------------------
(* Claims about waitForOperatorStatusToBeDone. *)

\* The status the most recent poll fetched, read as the specification reads
\* it.
Fetched == got.err = "nil"

HasCondition(type, status) ==
    \E i \in DOMAIN got.actual.Conditions :
        /\ got.actual.Conditions[i].Type = type
        /\ got.actual.Conditions[i].Status = status

HasConditionType(type) ==
    \E i \in DOMAIN got.actual.Conditions :
        got.actual.Conditions[i].Type = type

TheCondition(type) ==
    got.actual.Conditions[
        CHOOSE i \in DOMAIN got.actual.Conditions :
            got.actual.Conditions[i].Type = type ]

PositionOf(type) ==
    CHOOSE i \in DOMAIN got.actual.Conditions :
        got.actual.Conditions[i].Type = type

AvailableSignal == HasCondition("Available", "True")

ProgressingSignal == ~HasCondition("Progressing", "False")

DegradedSignal ==
    IF HasConditionType("Degraded")
    THEN ~HasCondition("Degraded", "False")
    ELSE ~HasCondition("Failing", "False")

\* The expected operands the fetched status does not report at the expected
\* version.
UndoneNames ==
    { expected.Versions[i].Name : i \in
        { j \in DOMAIN expected.Versions :
            ~\E k \in DOMAIN got.actual.Versions :
                got.actual.Versions[k] = expected.Versions[j] } }

ModePredicate ==
    /\ AvailableSignal
    /\ ~ProgressingSignal \/ Len(expected.Versions) > 0
    /\ mode = "InitializingMode" \/ ~DegradedSignal

\* The call returned nil.
WaitSucceeded == waitRet.returned /\ waitRet.err = NoErr

\* The call returned an error.
WaitReturnedError == waitRet.returned /\ waitRet.err # NoErr

\* C7: once a poll has run, the wait has ended with success if and only if
\* the most recent poll fetched the status, no expected operand is undone in
\* it, and the predicate of the mode holds on its conditions: available and
\* (not progressing or expected operand versions non-empty), and in every
\* mode but InitializingMode not degraded.
C7_CompletionPredicate ==
    polls > 0 =>
        (WaitSucceeded <=> (Fetched /\ UndoneNames = {} /\ ModePredicate))

\* C7 happens: a poll in InitializingMode ended the wait with success on a
\* degraded, progressing status, and one in DefaultMode on a status that is
\* not degraded.
C7_Witness ==
    /\ WaitSucceeded
    /\ mode = "InitializingMode"
    /\ DegradedSignal
    /\ ProgressingSignal
    /\ expected.Versions # << >>

C7_WitnessDefault ==
    /\ WaitSucceeded
    /\ mode = "DefaultMode"
    /\ ~ProgressingSignal
    /\ expected.Versions = << >>

\* C8: when the most recent poll fetched a status with both a Degraded and a
\* Failing condition and no operand undone, the Degraded condition alone
\* decides: in DefaultMode the wait succeeded iff available, (not progressing
\* or expected operand versions non-empty) and Degraded is False; a poll that
\* is not done records ClusterOperatorDegraded with Degraded's message iff
\* Degraded is True, and otherwise the generic diagnostic whose degraded
\* value is "Degraded is not False".
C8_DegradedOverridesFailing ==
    ( /\ polls > 0
      /\ Fetched
      /\ UndoneNames = {}
      /\ HasConditionType("Degraded")
      /\ HasConditionType("Failing") ) =>
        /\ mode = "DefaultMode" =>
             ( WaitSucceeded <=>
                 /\ AvailableSignal
                 /\ ~ProgressingSignal \/ Len(expected.Versions) > 0
                 /\ TheCondition("Degraded").Status = "False" )
        /\ ~WaitSucceeded =>
             IF TheCondition("Degraded").Status = "True"
             THEN /\ lastErr.Reason = "ClusterOperatorDegraded"
                  /\ lastErr.Message =
                       Msg(got.actual.Name, "is reporting a failure",
                           IF TheCondition("Degraded").Message # ""
                           THEN << TheCondition("Degraded").Message >>
                           ELSE << >>)
             ELSE /\ lastErr.Reason = "ClusterOperatorNotAvailable"
                  /\ lastErr.Nested[4].degraded =
                       (TheCondition("Degraded").Status # "False")

\* C8 happens: Failing=True, Degraded=False, Available=True,
\* Progressing=False in DefaultMode completed the wait, with Failing listed
\* after Degraded; and a poll recorded Degraded's failure although Failing is
\* False and listed after it.
C8_Witness ==
    /\ WaitSucceeded
    /\ mode = "DefaultMode"
    /\ HasCondition("Failing", "True")
    /\ HasCondition("Degraded", "False")
    /\ HasCondition("Available", "True")
    /\ HasCondition("Progressing", "False")
    /\ PositionOf("Degraded") < PositionOf("Failing")

C8_WitnessDiagnostic ==
    /\ polls > 0
    /\ ~WaitSucceeded
    /\ Fetched
    /\ UndoneNames = {}
    /\ HasCondition("Failing", "False")
    /\ HasCondition("Degraded", "True")
    /\ PositionOf("Degraded") < PositionOf("Failing")
    /\ lastErr.Reason = "ClusterOperatorDegraded"

\* C9: when the call returns an error, the error is the diagnostic the most
\* recent poll recorded; it is the error of PollImmediateUntil itself only
\* when no poll recorded a diagnostic.
C9_CancellationSurfacesLastDiagnostic ==
    WaitReturnedError =>
        /\ ctxDone
        /\ IF recorded # NoErr
           THEN waitRet.err = recorded
           ELSE lastErr = NoErr /\ waitRet.err = ErrWaitTimeout

\* C9 happens: the context was cancelled after two polls that were not done,
\* and the call returned the diagnostic of the second one.
C9_Witness ==
    /\ WaitReturnedError
    /\ polls >= 2
    /\ ctxDone
    /\ waitRet.err = recorded
    /\ recorded.Reason = "ClusterOperatorDegraded"

\* C10: when the most recent poll fetched a status in which an expected
\* operand is missing or has another version, the wait did not succeed on
\* that poll, whatever the conditions and the mode, and the diagnostic
\* recorded is ClusterOperatorNotAvailable, "is still updating"; also when
\* "operator" is the only such operand.
C10_OperandGate ==
    (polls > 0 /\ Fetched /\ UndoneNames # {}) =>
        /\ ~WaitSucceeded
        /\ lastErr.Reason = "ClusterOperatorNotAvailable"
        /\ lastErr.Message[3] = "is still updating"
        /\ lastErr.Name = got.actual.Name

\* C10 happens: only "operator" is undone, the conditions satisfy the
\* predicate of the mode, and the poll recorded "still updating" with
\* nothing to report.
C10_Witness ==
    /\ polls > 0
    /\ Fetched
    /\ UndoneNames = { "operator" }
    /\ ModePredicate
    /\ ~WaitSucceeded
    /\ lastErr.Message = Msg(got.actual.Name, "is still updating", << >>)

\* The version the fetched status reports for an operand, "" if none.
ActualVersionOf(op) ==
    LET idx == { k \in DOMAIN got.actual.Versions :
                   got.actual.Versions[k].Name = op }
    IN  IF idx = {} THEN "" ELSE got.actual.Versions[Min(idx)].Version

ExpectedVersionOf(op) ==
    expected.Versions[CHOOSE j \in DOMAIN expected.Versions :
                          expected.Versions[j].Name = op].Version

\* The place of an operand name in the ascending order of names.
NameRank(op) == CHOOSE i \in DOMAIN OperandOrder : OperandOrder[i] = op

\* The operands the report of the most recent poll names, in its order.
ReportedOperands ==
    [ i \in DOMAIN lastErr.Message[4] |-> lastErr.Message[4][i][2] ]

\* C11: when the most recent poll found operands undone, its diagnostic is
\* "is still updating" with one report per undone operand other than
\* "operator" and no other report, in ascending order of operand name;
\* the report of an operand the status does not list is "missing version
\* information", that of an operand at another version is "upgrading <op>
\* from <actual version> to <expected version>"; with "operator" alone
\* undone the list is empty.
C11_UndoneReport ==
    (polls > 0 /\ Fetched /\ UndoneNames # {}) =>
        LET reports == lastErr.Message[4]
        IN  /\ lastErr.Message[1] = "Cluster operator"
            /\ lastErr.Message[2] = got.actual.Name
            /\ lastErr.Message[3] = "is still updating"
            /\ { ReportedOperands[i] : i \in DOMAIN reports }
                   = UndoneNames \ { "operator" }
            /\ \A i, j \in DOMAIN reports :
                   i < j => NameRank(ReportedOperands[i])
                                < NameRank(ReportedOperands[j])
            /\ \A i \in DOMAIN reports :
                   LET op == ReportedOperands[i]
                   IN  reports[i] =
                         IF ActualVersionOf(op) = ""
                         THEN << "missing version information for", op >>
                         ELSE << "upgrading", op, "from", ActualVersionOf(op),
                                 "to", ExpectedVersionOf(op) >>
            /\ UndoneNames = { "operator" } => reports = << >>

\* C11 happens: expected lists kube-apiserver before etcd, both are undone,
\* one missing and one at the old version, and "operator" is undone too.
C11_Witness ==
    /\ polls > 0
    /\ Fetched
    /\ UndoneNames = { "operator", "kube-apiserver", "etcd" }
    /\ ActualVersionOf("etcd") = OldVersion
    /\ ActualVersionOf("kube-apiserver") = ""
    /\ Len(lastErr.Message[4]) = 2
    /\ ReportedOperands = << "etcd", "kube-apiserver" >>

\* C12: the call emits ClusterOperatorWaitStarted before its first fetch and
\* nothing else until it returns; when it has returned it has emitted exactly
\* one more event, ClusterOperatorWaitSucceeded if it returned nil and
\* ClusterOperatorWaitFailed if it returned an error.
C12_LifecycleEvents ==
    /\ waitPc = "call" => (events = << >> /\ polls = 0)
    /\ (waitPc # "call" /\ ~waitRet.returned)
           => events = << "ClusterOperatorWaitStarted" >>
    /\ waitRet.returned
           => events = << "ClusterOperatorWaitStarted",
                          IF waitRet.err = NoErr
                          THEN "ClusterOperatorWaitSucceeded"
                          ELSE "ClusterOperatorWaitFailed" >>
    /\ waitRet.returned <=> waitPc = "done"

\* C12 happens: a call returned an error after two polls, and a call
\* returned nil on its second poll.
C12_Witness ==
    /\ WaitReturnedError
    /\ polls = 2
    /\ events = << "ClusterOperatorWaitStarted", "ClusterOperatorWaitFailed" >>

C12_WitnessSucceeded ==
    /\ WaitSucceeded
    /\ polls = 2
    /\ events = << "ClusterOperatorWaitStarted", "ClusterOperatorWaitSucceeded" >>

\* The fetch of the most recent poll failed.
FetchFailed == polls > 0 /\ got.err # "nil" /\ got.err # "none"

\* C17: a poll whose fetch fails does not end the wait: it records
\* ClusterOperatorNotAvailable, "<name> has not yet reported success", with
\* the error of the fetch as nested cause, and the call goes on to the next
\* tick unless its context is done; the call returns an error only when its
\* context is done.
C17_FetchFailureNeverEndsWait ==
    /\ FetchFailed =>
           /\ ~WaitSucceeded
           /\ lastErr = [ Reason  |-> "ClusterOperatorNotAvailable",
                          Message |-> << "Cluster operator", expected.Name,
                                         "has not yet reported success", << >> >>,
                          Name    |-> expected.Name,
                          Nested  |-> << got.err >> ]
           /\ ~ctxDone => (~waitRet.returned /\ waitPc \in { "stop?", "loop" })
    /\ WaitReturnedError => ctxDone

\* C17 happens: the fetch of the first poll failed and the second poll ended
\* the wait with success.
C17_Witness ==
    /\ WaitSucceeded
    /\ polls = 2
    /\ ~ctxDone
    /\ lastErr.Nested = << GetFailed.err >>
    /\ Fetched

\* C18: once the context of the call is done, the call fetches the status
\* no more: no step from a state with the context done is a poll, also when
\* the context is done at the time of the call.
C18_NoPollingAfterCancellation ==
    [][ ctxDone => polls' = polls ]_waitVars

\* The condition the degraded signal is read from: Degraded if the fetched
\* status has one, else Failing, else none.
ChosenCondition ==
    IF HasConditionType("Degraded") THEN TheCondition("Degraded")
    ELSE IF HasConditionType("Failing") THEN TheCondition("Failing")
    ELSE NoCondition

\* The generic diagnostic of a poll that is not done.
GenericDiagnostic(degraded) ==
    /\ lastErr.Reason = "ClusterOperatorNotAvailable"
    /\ lastErr.Message =
         Msg(got.actual.Name, "has not yet reported success", << >>)
    /\ lastErr.Nested[4].degraded = degraded

\* C21: degraded defaults to true.  When the most recent poll fetched a
\* status with no operand undone: outside InitializingMode the wait succeeded
\* only if the chosen condition (Degraded if present, else Failing) has
\* status False, so never on a status without both conditions or with the
\* chosen condition Unknown; a poll that is not done records the generic
\* "has not yet reported success" diagnostic, whose degraded value is "the
\* chosen condition is not False", unless the chosen condition is True, and
\* then it records the failure; in InitializingMode the wait succeeds
\* whatever the chosen condition is.
C21_DegradedDefaultsTrue ==
    ( /\ polls > 0
      /\ Fetched
      /\ UndoneNames = {} ) =>
        /\ mode # "InitializingMode" =>
             ( WaitSucceeded <=>
                 /\ AvailableSignal
                 /\ ~ProgressingSignal \/ Len(expected.Versions) > 0
                 /\ ChosenCondition.Status = "False" )
        /\ mode = "InitializingMode" =>
             ( WaitSucceeded <=>
                 /\ AvailableSignal
                 /\ ~ProgressingSignal \/ Len(expected.Versions) > 0 )
        /\ ~WaitSucceeded =>
             IF ChosenCondition.Status = "True"
             THEN lastErr.Reason = "ClusterOperatorDegraded"
             ELSE GenericDiagnostic(ChosenCondition.Status # "False")

\* C21 happens: in DefaultMode a poll on an available status that is not
\* progressing and has neither a Degraded nor a Failing condition was not
\* done and recorded the generic diagnostic with degraded = true.
C21_Witness ==
    /\ polls > 0
    /\ Fetched
    /\ UndoneNames = {}
    /\ mode = "DefaultMode"
    /\ AvailableSignal
    /\ ~ProgressingSignal
    /\ ChosenCondition = NoCondition
    /\ ~WaitSucceeded
    /\ GenericDiagnostic(TRUE)

\* The same with a chosen condition that is Unknown, Degraded or Failing.
C21_WitnessUnknownDegraded ==
    /\ polls > 0
    /\ Fetched
    /\ UndoneNames = {}
    /\ mode = "DefaultMode"
    /\ AvailableSignal
    /\ ~ProgressingSignal
    /\ ChosenCondition.Type = "Degraded"
    /\ ChosenCondition.Status = "Unknown"
    /\ HasCondition("Failing", "False")
    /\ ~WaitSucceeded
    /\ GenericDiagnostic(TRUE)

C21_WitnessUnknownFailing ==
    /\ polls > 0
    /\ Fetched
    /\ UndoneNames = {}
    /\ mode = "DefaultMode"
    /\ AvailableSignal
    /\ ~ProgressingSignal
    /\ ChosenCondition.Type = "Failing"
    /\ ChosenCondition.Status = "Unknown"
    /\ ~WaitSucceeded
    /\ GenericDiagnostic(TRUE)

\* In InitializingMode the wait succeeded on a status without both
\* conditions, and on one whose chosen condition is Unknown.
C21_WitnessInitializing ==
    /\ WaitSucceeded
    /\ mode = "InitializingMode"
    /\ ChosenCondition = NoCondition

C21_WitnessInitializingUnknown ==
    /\ WaitSucceeded
    /\ mode = "InitializingMode"
    /\ ChosenCondition.Status = "Unknown"

=============================================================================
